---- MODULE Spec2Model ----
(***************************************************************************)
(* Model of src/app.py, the ShopSmart sales dashboard: one Streamlit       *)
(* script run (a "render") loads the CSV at DATA_FILE_PATH through the     *)
(* memoized load_data, computes the KPIs and builds the two charts.        *)
(*                                                                         *)
(* A CSV file is modelled after parsing of its cells: a header (the set of *)
(* column names) and a sequence of rows, each a function from the header's *)
(* columns to cell values. An empty cell is what pandas.read_csv makes of  *)
(* it: NaN in a numeric column, NaT in the parsed date column and the      *)
(* float nan (NA below) in a text column. Amounts are whole numbers.       *)
(***************************************************************************)
EXTENDS Integers, Sequences, FiniteSets

VARIABLES
    file,            \* the file at DATA_FILE_PATH (changed by the environment)
    cache,           \* st.cache_data's entry for load_data(DATA_FILE_PATH)
    pc,              \* position of the current script run in main()
    df,              \* main's df
    err,             \* the st.error shown in this run
    checks,          \* the validation checks load_data evaluated in this run
    out,             \* UI elements emitted in this run, in order
    calls,           \* functions of app.py executed in this run, in order
    kpis,            \* calculate_kpis' result
    daily_sales,     \* create_sales_trend_chart's aggregate
    category_sales,  \* create_category_chart's aggregate
    category_fig     \* the bar chart's specification

vars == <<file, cache, pc, df, err, checks, out, calls, kpis, daily_sales,
          category_sales, category_fig>>

(***************************************************************************)
(* Bounds of the explored inputs.                                          *)
(***************************************************************************)
MaxRows == 2
MaxRowsIncomplete == 1
MaxCacheRows == 1
MaxMissing == 2

(***************************************************************************)
(* Missing cells as pandas represents them.                                *)
(***************************************************************************)
NaN == -1000
NaT == -2000
NA == "nan"

required_columns ==
    <<"date", "order_id", "product", "category",
      "region", "quantity", "unit_price", "total_amount">>

valid_categories == {"Electronics", "Accessories", "Audio", "Wearables", "Smart Home"}

valid_regions == {"North", "South", "East", "West"}

\* Python's ordering of the category strings, which groupby sorts its keys by.
CategoryAlphabet ==
    <<"Accessories", "Audio", "Electronics", "Smart Home", "Wearables">>

Range(s) == {s[i] : i \in 1..Len(s)}

Columns == Range(required_columns)

NullOf(c) ==
    IF c \in {"quantity", "unit_price", "total_amount"} THEN NaN
    ELSE IF c = "date" THEN NaT
    ELSE NA

(***************************************************************************)
(* Input files. Every row is a valid base row changed in at most one cell, *)
(* so a file with two rows can break two different rules at once.          *)
(***************************************************************************)
BaseRow ==
    [date |-> 1, order_id |-> "A", product |-> "P", category |-> "Electronics",
     region |-> "North", quantity |-> 1, unit_price |-> 1, total_amount |-> 1]

CellValues(c) ==
    CASE c = "date" -> {NaT, 1, 2}
      [] c = "order_id" -> {NA, "A", "B"}
      [] c = "product" -> {"P"}
      [] c = "category" -> {NA, "Electronics", "Audio", "Garden"}
      [] c = "region" -> {NA, "North", "Mars"}
      [] c = "quantity" -> {NaN, 0, 1}
      [] c = "unit_price" -> {-1, 1}
      [] c = "total_amount" -> {NaN, 0, 1, 2}

Rows ==
    {BaseRow} \cup
    UNION {{[BaseRow EXCEPT ![c] = v] : v \in CellValues(c)} : c \in Columns}

Restrict(row, cols) == [c \in cols |-> row[c]]

RowSeqs(n, cols) ==
    UNION {[1..k -> {Restrict(r, cols) : r \in Rows}] : k \in 0..n}

Headers == {h \in SUBSET Columns : Cardinality(Columns \ h) <= MaxMissing}

NoFile == [exists |-> FALSE, cols |-> {}, rows |-> <<>>]

FilesWith(maxRows, maxRowsIncomplete) ==
    {NoFile} \cup
    UNION {{[exists |-> TRUE, cols |-> h, rows |-> rs] :
                rs \in RowSeqs(IF h = Columns THEN maxRows ELSE maxRowsIncomplete, h)}
           : h \in Headers}

LoadFiles == FilesWith(MaxRows, MaxRowsIncomplete)

CacheFiles == FilesWith(MaxCacheRows, 0)

(***************************************************************************)
(* pandas operations used by app.py.                                       *)
(***************************************************************************)
None == [columns |-> {}, rows |-> <<>>]

\* pd.read_csv(filepath, parse_dates=['date']) on a file whose header has 'date'
read_csv(f) == [columns |-> f.cols, rows |-> f.rows]

\* df[c].isnull().any()
isnull_any(t, c) == \E i \in 1..Len(t.rows) : t.rows[i][c] = NullOf(c)

\* (df[c] <= k).any() and (df[c] < k).any(): a comparison with NaN is False
le_any(t, c, k) == \E i \in 1..Len(t.rows) : t.rows[i][c] # NaN /\ t.rows[i][c] <= k

lt_any(t, c, k) == \E i \in 1..Len(t.rows) : t.rows[i][c] # NaN /\ t.rows[i][c] < k

RECURSIVE unique(_)
\* Series.unique(): the distinct values in order of first appearance, nan included
unique(s) ==
    IF s = <<>> THEN <<>>
    ELSE LET front == unique(SubSeq(s, 1, Len(s) - 1))
             last == s[Len(s)]
         IN IF last \in Range(front) THEN front ELSE Append(front, last)

\* df[~df[c].isin(valid)][c].unique(): nan is not in any set of strings
not_isin_unique(t, c, valid) ==
    unique(SelectSeq([i \in 1..Len(t.rows) |-> t.rows[i][c]], LAMBDA v : v \notin valid))

RECURSIVE SumSeq(_)
SumSeq(s) == IF s = <<>> THEN 0 ELSE SumSeq(SubSeq(s, 1, Len(s) - 1)) + s[Len(s)]

\* Series.sum() of the rows' total_amount; NaN is skipped
SumAmounts(rows) ==
    SumSeq(SelectSeq([i \in 1..Len(rows) |-> rows[i]["total_amount"]],
                     LAMBDA v : v # NaN))

\* Series.nunique(): number of distinct values, missing ones not counted
nunique(t, c) == Cardinality({t.rows[i][c] : i \in 1..Len(t.rows)} \ {NullOf(c)})

\* the keys in ascending order of rank
CategoryRank(v) == CHOOSE i \in 1..Len(CategoryAlphabet) : CategoryAlphabet[i] = v

\* position of key v of column c in groupby's ascending key order
KeyRank(c, v) == IF c = "category" THEN CategoryRank(v) ELSE v

SortKeys(S, c) ==
    CHOOSE q \in [1..Cardinality(S) -> S] :
        \A i, j \in 1..Cardinality(S) : i < j => KeyRank(c, q[i]) < KeyRank(c, q[j])

\* df.groupby(c)['total_amount'].sum(): one row per distinct key, keys ascending,
\* rows whose key is missing dropped (groupby's dropna=True)
groupby_sum(t, c) ==
    LET keys == SortKeys({t.rows[i][c] : i \in 1..Len(t.rows)} \ {NullOf(c)}, c)
    IN [k \in 1..Len(keys) |->
           [key |-> keys[k],
            total_amount |->
                SumAmounts(SelectSeq(t.rows, LAMBDA r : r[c] = keys[k]))]]

RECURSIVE InsertDescending(_, _)
InsertDescending(s, x) ==
    IF s = <<>> THEN <<x>>
    ELSE IF s[Len(s)].total_amount >= x.total_amount THEN Append(s, x)
    ELSE Append(InsertDescending(SubSeq(s, 1, Len(s) - 1), x), s[Len(s)])

RECURSIVE InsertAscending(_, _)
InsertAscending(s, x) ==
    IF s = <<>> THEN <<x>>
    ELSE IF s[Len(s)].total_amount <= x.total_amount THEN Append(s, x)
    ELSE Append(InsertAscending(SubSeq(s, 1, Len(s) - 1), x), s[Len(s)])

RECURSIVE sort_values_ascending(_)
sort_values_ascending(s) ==
    IF s = <<>> THEN <<>>
    ELSE InsertAscending(sort_values_ascending(SubSeq(s, 1, Len(s) - 1)), s[Len(s)])

RECURSIVE sort_values_descending(_)
\* Series.sort_values(ascending=False): equal sums keep their groupby order
sort_values_descending(s) ==
    IF s = <<>> THEN <<>>
    ELSE InsertDescending(sort_values_descending(SubSeq(s, 1, Len(s) - 1)), s[Len(s)])

(***************************************************************************)
(* load_data. The body of the try block is a chain of checks; each stage   *)
(* below either raises or hands the table to the next one. A result holds  *)
(* the exception raised (if any), the table returned and the checks that   *)
(* were evaluated, in order.                                               *)
(***************************************************************************)
NoError == [banner |-> "", message |-> "", detail |-> <<>>]

Raise(type, message, detail, evaluated) ==
    [raised |-> TRUE, type |-> type, message |-> message, detail |-> detail,
     df |-> None, checks |-> evaluated]

Return(t) ==
    [raised |-> FALSE, type |-> "", message |-> "", detail |-> <<>>,
     df |-> t, checks |-> <<>>]

\* the checks in `evaluated` ran, then the rest of the body gave result r
Then(evaluated, r) == [r EXCEPT !.checks = evaluated \o @]

\* ', '.join(values) raises TypeError when a value is the float nan
JoinRaises(values) == NA \in Range(values)

RegionCheck(t) ==
    LET invalid_regions == not_isin_unique(t, "region", valid_regions)
    IN IF Len(invalid_regions) > 0
       THEN IF JoinRaises(invalid_regions)
            THEN Raise("TypeError", "sequence item: expected str instance, float found",
                       <<>>, <<"region">>)
            ELSE Raise("ValueError", "Data contains invalid regions",
                       invalid_regions, <<"region">>)
       ELSE Then(<<"region">>, Return(t))

CategoryCheck(t) ==
    LET invalid_cats == not_isin_unique(t, "category", valid_categories)
    IN IF Len(invalid_cats) > 0
       THEN IF JoinRaises(invalid_cats)
            THEN Raise("TypeError", "sequence item: expected str instance, float found",
                       <<>>, <<"category">>)
            ELSE Raise("ValueError", "Data contains invalid categories",
                       invalid_cats, <<"category">>)
       ELSE Then(<<"category">>, RegionCheck(t))

PositiveChecksQuantityFirst(t) ==
    IF lt_any(t, "quantity", 1)
    THEN Raise("ValueError", "Data contains invalid quantities (must be >= 1)",
               <<>>, <<"quantity < 1">>)
    ELSE IF le_any(t, "total_amount", 0)
    THEN Raise("ValueError", "Data contains non-positive transaction amounts",
               <<>>, <<"quantity < 1", "total_amount <= 0">>)
    ELSE Then(<<"quantity < 1", "total_amount <= 0">>, CategoryCheck(t))

PositiveChecks(t) ==
    IF le_any(t, "total_amount", 0)
    THEN Raise("ValueError", "Data contains non-positive transaction amounts",
               <<>>, <<"total_amount <= 0">>)
    ELSE IF lt_any(t, "quantity", 1)
    THEN Raise("ValueError", "Data contains invalid quantities (must be >= 1)",
               <<>>, <<"total_amount <= 0", "quantity < 1">>)
    ELSE Then(<<"total_amount <= 0", "quantity < 1">>, CategoryCheck(t))

NullChecks(t) ==
    IF isnull_any(t, "total_amount")
    THEN Raise("ValueError", "Data contains missing transaction amounts",
               <<>>, <<"total_amount null">>)
    ELSE IF isnull_any(t, "order_id")
    THEN Raise("ValueError", "Data contains missing order IDs",
               <<>>, <<"total_amount null", "order_id null">>)
    ELSE Then(<<"total_amount null", "order_id null">>, PositiveChecks(t))

\* [col for col in required_columns if col not in df.columns]
missing_cols(t) == SelectSeq(required_columns, LAMBDA c : c \notin t.columns)

ColumnsCheck(t) ==
    IF missing_cols(t) # <<>>
    THEN Raise("ValueError", "CSV is missing required columns",
               missing_cols(t), <<"columns">>)
    ELSE Then(<<"columns">>, NullChecks(t))

\* pd.read_csv(filepath, parse_dates=['date']) raises ValueError itself when the
\* header has no 'date' column, before line 67 computes missing_cols; that is
\* a check of the header's columns and is logged as one.
ReadAndValidate(f) ==
    IF "date" \notin f.cols
    THEN Raise("ValueError", "Missing column provided to 'parse_dates'",
               <<"date">>, <<"columns">>)
    ELSE ColumnsCheck(read_csv(f))

TryBody(f) ==
    IF ~f.exists
    THEN Raise("FileNotFoundError", "Data file not found at", <<>>, <<"existence">>)
    ELSE Then(<<"existence">>, ReadAndValidate(f))

ExceptHandlersFallThrough(r) ==
    IF r.type = "FileNotFoundError"
    THEN [banner |-> "Data Loading Error", stop |-> TRUE]
    ELSE IF r.type = "ValueError"
    THEN [banner |-> "Data Validation Error", stop |-> TRUE]
    ELSE [banner |-> "Unexpected Error", stop |-> FALSE]

\* the except clauses: which st.error is shown, and st.stop()
ExceptHandlers(r) ==
    IF r.type = "FileNotFoundError"
    THEN [banner |-> "Data Loading Error", stop |-> TRUE]
    ELSE IF r.type = "ValueError"
    THEN [banner |-> "Data Validation Error", stop |-> TRUE]
    ELSE [banner |-> "Unexpected Error", stop |-> TRUE]

\* one uncached execution of load_data(filepath)
load_data(f) ==
    LET r == TryBody(f)
    IN IF r.raised
       THEN [ok |-> FALSE, df |-> None, checks |-> r.checks,
             stop |-> ExceptHandlers(r).stop,
             err |-> [banner |-> ExceptHandlers(r).banner,
                      message |-> r.message, detail |-> r.detail]]
       ELSE [ok |-> TRUE, df |-> r.df, checks |-> r.checks, stop |-> FALSE,
             err |-> NoError]

(***************************************************************************)
(* calculate_kpis and the chart builders.                                  *)
(***************************************************************************)
NoKpis == [total_sales |-> 0, total_orders |-> 0]

calculate_kpis_row_count(t) ==
    [total_sales |-> SumAmounts(t.rows), total_orders |-> Len(t.rows)]

calculate_kpis(t) ==
    [total_sales |-> SumAmounts(t.rows), total_orders |-> nunique(t, "order_id")]

\* daily_sales of create_sales_trend_chart
DailySales(t) == groupby_sum(t, "date")

CategorySalesAscending(t) ==
    sort_values_ascending(groupby_sum(t, "category"))

\* category_sales of create_category_chart
CategorySales(t) == sort_values_descending(groupby_sum(t, "category"))

NoFig == [x |-> <<>>, y |-> <<>>, categoryorder |-> ""]

\* px.bar(category_sales, x='category', y='total_amount') and update_layout
CategoryFig(agg) ==
    [x |-> [i \in 1..Len(agg) |-> agg[i].key],
     y |-> [i \in 1..Len(agg) |-> agg[i].total_amount],
     categoryorder |-> "total descending"]

\* the bars as plotly draws them: with categoryorder 'total descending' the
\* categories are ordered by their totals, otherwise in trace order
DisplayedBars(fig) ==
    LET bars == [i \in 1..Len(fig.x) |-> [key |-> fig.x[i], total_amount |-> fig.y[i]]]
    IN IF fig.categoryorder = "total descending"
       THEN sort_values_descending(bars)
       ELSE bars

(***************************************************************************)
(* The script run: main().                                                 *)
(***************************************************************************)
InitWith(files) ==
    /\ file \in files
    /\ cache = None
    /\ pc = "idle"
    /\ df = None
    /\ err = NoError
    /\ checks = <<>>
    /\ out = <<>>
    /\ calls = <<>>
    /\ kpis = NoKpis
    /\ daily_sales = <<>>
    /\ category_sales = <<>>
    /\ category_fig = NoFig

Init == InitWith(CacheFiles)

InitLoad == InitWith(LoadFiles)

\* the environment replaces, edits or deletes the file between two runs
ChangeFile ==
    /\ pc = "idle"
    /\ \E f \in CacheFiles : f # file /\ file' = f
    /\ UNCHANGED <<cache, pc, df, err, checks, out, calls, kpis, daily_sales,
                   category_sales, category_fig>>

\* a script run starts: st.title
StartRender ==
    /\ pc = "idle"
    /\ pc' = "title"
    /\ out' = <<"title">>
    /\ calls' = <<"main">>
    /\ df' = None
    /\ err' = NoError
    /\ checks' = <<>>
    /\ kpis' = NoKpis
    /\ daily_sales' = <<>>
    /\ category_sales' = <<>>
    /\ category_fig' = NoFig
    /\ UNCHANGED <<file, cache>>

\* df = load_data(DATA_FILE_PATH) under @st.cache_data: the entry is keyed by
\* the argument (the path) alone; a raised exception stores nothing
LoadData ==
    /\ pc = "title"
    /\ IF cache # None
       THEN /\ df' = cache
            /\ pc' = "loaded"
            /\ UNCHANGED <<cache, err, checks, out, calls>>
       ELSE LET r == load_data(file)
            IN /\ calls' = Append(calls, "load_data")
               /\ checks' = r.checks
               /\ err' = r.err
               /\ out' = IF r.ok THEN out ELSE Append(out, "error")
               /\ df' = r.df
               /\ cache' = IF r.ok THEN r.df ELSE cache
               /\ pc' = IF r.ok \/ ~r.stop THEN "loaded" ELSE "stopped"
    /\ UNCHANGED <<file, kpis, daily_sales, category_sales, category_fig>>

CalculateKpis ==
    /\ pc = "loaded"
    /\ kpis' = calculate_kpis(df)
    /\ calls' = Append(calls, "calculate_kpis")
    /\ pc' = "kpis"
    /\ UNCHANGED <<file, cache, df, err, checks, out, daily_sales, category_sales,
                   category_fig>>

\* the two st.metric cards
ShowMetrics ==
    /\ pc = "kpis"
    /\ out' = out \o <<"metric Total Sales", "metric Total Orders">>
    /\ pc' = "metrics"
    /\ UNCHANGED <<file, cache, df, err, checks, calls, kpis, daily_sales,
                   category_sales, category_fig>>

TrendChart ==
    /\ pc = "metrics"
    /\ daily_sales' = DailySales(df)
    /\ calls' = Append(calls, "create_sales_trend_chart")
    /\ out' = Append(out, "chart trend")
    /\ pc' = "trend"
    /\ UNCHANGED <<file, cache, df, err, checks, kpis, category_sales, category_fig>>

CategoryChart ==
    /\ pc = "trend"
    /\ category_sales' = CategorySales(df)
    /\ category_fig' = CategoryFig(CategorySales(df))
    /\ calls' = Append(calls, "create_category_chart")
    /\ out' = Append(out, "chart category")
    /\ pc' = "done"
    /\ UNCHANGED <<file, cache, df, err, checks, kpis, daily_sales>>

\* the run is over (main returned, or st.stop() ended it); the page stays as is
EndRender ==
    /\ pc \in {"done", "stopped"}
    /\ pc' = "idle"
    /\ UNCHANGED <<file, cache, df, err, checks, out, calls, kpis, daily_sales,
                   category_sales, category_fig>>

Render ==
    \/ StartRender
    \/ LoadData
    \/ CalculateKpis
    \/ ShowMetrics
    \/ TrendChart
    \/ CategoryChart

Next == Render \/ EndRender \/ ChangeFile

\* renders interleaved with changes of the file, the cache living across them
Spec == Init /\ [][Next]_vars

NextLoad == Render

\* one render of each input file on an empty cache
SpecLoad == InitLoad /\ [][NextLoad]_vars

(***************************************************************************)
(* Properties.                                                             *)
(***************************************************************************)
AfterLoad == {"loaded", "kpis", "metrics", "trend", "done"}

Emitted == Range(out)

KpiOrChart ==
    {"metric Total Sales", "metric Total Orders", "chart trend", "chart category"}

\* this run executed load_data's body (a cache miss) and is past it
RanLoad == pc \in AfterLoad \cup {"stopped"} /\ "load_data" \in Range(calls)

CheckOrder ==
    <<"existence", "columns", "total_amount null", "order_id null",
      "total_amount <= 0", "quantity < 1", "category", "region">>

\* the cells of column c in file f
Cells(f, c) ==
    IF f.exists /\ c \in f.cols THEN {f.rows[i][c] : i \in 1..Len(f.rows)} ELSE {}

\* file f breaks the rule that the k-th check of CheckOrder stands for
Violates(f, k) ==
    CASE k = 1 -> ~f.exists
      [] k = 2 -> f.exists /\ f.cols # Columns
      [] k = 3 -> NaN \in Cells(f, "total_amount")
      [] k = 4 -> NA \in Cells(f, "order_id")
      [] k = 5 -> \E v \in Cells(f, "total_amount") : v # NaN /\ v <= 0
      [] k = 6 -> \E v \in Cells(f, "quantity") : v # NaN /\ v < 1
      [] k = 7 -> \E v \in Cells(f, "category") : v \notin valid_categories
      [] k = 8 -> \E v \in Cells(f, "region") : v \notin valid_regions

ViolatedChecks(f) == {k \in 1..Len(CheckOrder) : Violates(f, k)}

FirstViolated(f) ==
    CHOOSE k \in ViolatedChecks(f) : \A j \in ViolatedChecks(f) : k <= j

\* the checks whose failure is reported with this message
ChecksOfMessage(m) ==
    CASE m = "Data file not found at" -> {"existence"}
      [] m = "Missing column provided to 'parse_dates'" -> {"columns"}
      [] m = "CSV is missing required columns" -> {"columns"}
      [] m = "Data contains missing transaction amounts" -> {"total_amount null"}
      [] m = "Data contains missing order IDs" -> {"order_id null"}
      [] m = "Data contains non-positive transaction amounts" -> {"total_amount <= 0"}
      [] m = "Data contains invalid quantities (must be >= 1)" -> {"quantity < 1"}
      [] m = "Data contains invalid categories" -> {"category"}
      [] m = "Data contains invalid regions" -> {"region"}
      [] m = "sequence item: expected str instance, float found" -> {"category", "region"}
      [] OTHER -> {}

\* C1: load_data evaluates existence, missing columns, null total_amount, null
\* order_id, total_amount <= 0, quantity < 1, category enum, region enum in this
\* order; the failure shown is that of the first check the file violates, the
\* checks evaluated are exactly those up to it, and a file violating none has
\* all eight evaluated and no failure.
C1_FirstViolatedCheckWins ==
    RanLoad =>
        IF ViolatedChecks(file) = {}
        THEN err = NoError /\ checks = CheckOrder
        ELSE /\ err # NoError
             /\ checks = SubSeq(CheckOrder, 1, FirstViolated(file))
             /\ CheckOrder[FirstViolated(file)] \in ChecksOfMessage(err.message)

\* a file with a null total_amount in one row and an invalid category in
\* another was loaded and the null total_amount was reported
C1_Witness ==
    /\ pc = "stopped"
    /\ {3, 7} \subseteq ViolatedChecks(file)
    /\ err.message = "Data contains missing transaction amounts"

\* C2: a render whose load_data fails shows an error and ends there:
\* calculate_kpis is not run and no KPI card or chart is emitted; cards and
\* charts are emitted only when load_data returned a table.
C2_FailedLoadHaltsRender ==
    /\ (RanLoad /\ ~load_data(file).ok) => err # NoError
    /\ err # NoError =>
          /\ pc \in {"stopped", "idle"}
          /\ "error" \in Emitted
          /\ "calculate_kpis" \notin Range(calls)
          /\ Emitted \cap KpiOrChart = {}
    /\ (Emitted \cap KpiOrChart # {} \/ "calculate_kpis" \in Range(calls)) =>
          err = NoError /\ df # None

\* a render stopped on an unexpected exception, with only the title and the
\* error on the page
C2_Witness ==
    /\ pc = "stopped"
    /\ err.banner = "Unexpected Error"
    /\ out = <<"title", "error">>

\* C3: the table a render uses is the one a fresh load of the file as it is
\* at the time of that render returns; the cache never serves a changed file.
C3_NeverStale ==
    pc \in AfterLoad => load_data(file).ok /\ df = load_data(file).df

ValidRecord(r) ==
    /\ r["total_amount"] # NaN
    /\ r["order_id"] # NA
    /\ r["total_amount"] > 0
    /\ r["quantity"] # NaN
    /\ r["quantity"] >= 1
    /\ r["category"] \in valid_categories
    /\ r["region"] \in valid_regions

\* C4: every record of a table load_data returns has total_amount and
\* order_id present, total_amount > 0, quantity present and >= 1, category
\* and region in their sets.
C4_LoadedRecordsValid ==
    (RanLoad /\ pc \in AfterLoad) =>
        /\ df.columns = Columns
        /\ \A i \in 1..Len(df.rows) : ValidRecord(df.rows[i])

\* C5: an existing file whose header lacks required columns fails with the
\* validation banner and a message naming exactly the missing columns.
C5_MissingColumnsNamed ==
    (RanLoad /\ file.exists /\ file.cols # Columns) =>
        /\ pc = "stopped"
        /\ err.banner = "Data Validation Error"
        /\ Range(err.detail) = Columns \ file.cols

PassesUpToPositivity(f) == ViolatedChecks(f) \cap (1..6) = {}

OffendingCategories(f) ==
    {f.rows[i]["category"] : i \in 1..Len(f.rows)} \ valid_categories

\* C6: a file passing the existence, schema, null and positivity checks with a
\* category outside the set (a missing one included) fails with the validation
\* banner and a message listing the offending distinct categories, never as
\* an unexpected error.
C6_InvalidCategoryIsValidationError ==
    (RanLoad /\ PassesUpToPositivity(file) /\ Violates(file, 7)) =>
        /\ pc = "stopped"
        /\ err.banner = "Data Validation Error"
        /\ err.message = "Data contains invalid categories"
        /\ Range(err.detail) = OffendingCategories(file)
        /\ Len(err.detail) = Cardinality(OffendingCategories(file))

OrderIds(t) == {t.rows[i]["order_id"] : i \in 1..Len(t.rows)}

NoSharedOrderId(t) ==
    \A i, j \in 1..Len(t.rows) : i # j => t.rows[i]["order_id"] # t.rows[j]["order_id"]

\* C7: total_orders is the number of distinct order_id values of the loaded
\* table, at most the number of records, and equal to it exactly when no two
\* records share an order_id.
C7_TotalOrdersDistinct ==
    pc \in {"kpis", "metrics", "trend", "done"} =>
        /\ kpis.total_orders = Cardinality(OrderIds(df))
        /\ kpis.total_orders <= Len(df.rows)
        /\ (kpis.total_orders = Len(df.rows)) <=> NoSharedOrderId(df)

\* the KPIs of a two-record table whose records share their order_id
C7_Witness ==
    /\ pc = "kpis"
    /\ Len(df.rows) = 2
    /\ ~NoSharedOrderId(df)
    /\ kpis.total_orders = 1

Totals(agg) == SumSeq([i \in 1..Len(agg) |-> agg[i].total_amount])

\* C8: the per-category sums and the per-date sums each add up to total_sales.
C8_GroupingsKeepAllRecords ==
    pc = "done" =>
        /\ Totals(category_sales) = kpis.total_sales
        /\ Totals(daily_sales) = kpis.total_sales

NonIncreasing(agg) ==
    \A i \in 1..(Len(agg) - 1) : agg[i].total_amount >= agg[i + 1].total_amount

\* C9: the category aggregate has one row per distinct category of the table,
\* its sums are non-increasing, and the chart takes the rows in that order and
\* draws its bars in descending order of value.
C9_CategoryBarsDescending ==
    pc = "done" =>
        /\ {category_sales[i].key : i \in 1..Len(category_sales)}
               = {df.rows[i]["category"] : i \in 1..Len(df.rows)}
        /\ Len(category_sales) = Cardinality({df.rows[i]["category"] : i \in 1..Len(df.rows)})
        /\ NonIncreasing(category_sales)
        /\ category_fig.x = [i \in 1..Len(category_sales) |-> category_sales[i].key]
        /\ category_fig.y = [i \in 1..Len(category_sales) |-> category_sales[i].total_amount]
        /\ NonIncreasing(DisplayedBars(category_fig))
        /\ Range(DisplayedBars(category_fig)) = Range(category_sales)
        /\ Len(DisplayedBars(category_fig)) = Len(category_sales)

\* two categories whose sums put them in the reverse of alphabetical order
C9_Witness ==
    /\ pc = "done"
    /\ Len(category_sales) = 2
    /\ category_sales[1].key = "Electronics"
    /\ category_sales[2].key = "Audio"
    /\ category_sales[1].total_amount > category_sales[2].total_amount

\* C10: no record of a table load_data returns has a null date, and every
\* record has unit_price > 0.
C10_DateAndUnitPriceValidated ==
    (RanLoad /\ pc \in AfterLoad) =>
        \A i \in 1..Len(df.rows) :
            /\ df.rows[i]["date"] # NaT
            /\ df.rows[i]["unit_price"] # NaN
            /\ df.rows[i]["unit_price"] > 0

====
